---- MODULE Spec2Model ----
(***************************************************************************)
(* Entry rules of the SC2 mission order                                    *)
(* (worlds/sc2/mission_order/entry_rules.py).                              *)
(*                                                                         *)
(* Two hierarchies: the live rules (BeatMissionsEntryRule,                 *)
(* CountMissionsEntryRule, SubRuleEntryRule), which hold mission objects,  *)
(* and the rule data (BeatMissionsRuleData, CountMissionsRuleData,         *)
(* SubRuleRuleData), which hold mission ids.  Values are records tagged    *)
(* with the name of their class in the field "kind".                       *)
(***************************************************************************)
EXTENDS Integers, Sequences, FiniteSets, TLC

VARIABLES
    rules,      \* the live rules constructed so far and not yet used as a child
    ctor,       \* the last constructor call and its arguments (size, target)
    slot,       \* the RuleData returned by the last to_slot_data call
    beaten,     \* the argument of the last is_fulfilled call
    verdict,    \* what the last is_fulfilled call returned
    state,      \* the CollectionState: the items each player holds
    lam,        \* the predicate returned by the last to_lambda call
    answer,     \* what the last call of that predicate returned
    payload,    \* the generic payload handed to parse_from_dict
    parsed,     \* what parse_from_dict returned (or the error it raised)
    tip         \* what the last tooltip call returned

vars == <<rules, ctor, slot, beaten, verdict, state, lam, answer, payload, parsed, tip>>

-----------------------------------------------------------------------------
(* Bounds of the model.                                                    *)

NumMissions == 2        \* mission objects in the mission order
MaxTarget == 3          \* largest target amount handed to a constructor
MaxLeaves == 2          \* BeatMissions / CountMissions rules constructed
MaxSubs == 2            \* SubRule rules constructed
NumPlayers == 2         \* players of the multiworld
MaxIndent == 2          \* largest indent level handed to tooltip
MaxTamper == 1          \* fields added to or dropped from a payload in transit

Missions == 1..NumMissions
Targets == (0 - 2)..MaxTarget
Players == 1..NumPlayers

None == [kind |-> "None"]
NoVerdict == [of |-> "none", val |-> FALSE]
NoAnswer == [called |-> FALSE, val |-> FALSE, stale |-> FALSE, again |-> FALSE]

-----------------------------------------------------------------------------
(* Helpers for Python's built-ins.                                         *)

Range(s) == {s[i] : i \in 1..Len(s)}

\* sum(...) over a list of booleans: the number of True entries
RECURSIVE SumBool(_)
SumBool(bs) ==
    IF bs = <<>> THEN 0
    ELSE (IF Head(bs) THEN 1 ELSE 0) + SumBool(Tail(bs))

\* the members of a set of integers as a list, in ascending order
RECURSIVE Ascending(_)
Ascending(S) ==
    IF S = {} THEN <<>>
    ELSE LET m == CHOOSE x \in S : \A y \in S : x <= y
         IN  <<m>> \o Ascending(S \ {m})

-----------------------------------------------------------------------------
(* The mission table and the collection state (outside this file).         *)

\* SC2MOGenMission.mission.id: every mission has its own integer id
mission_id(m) == 2 * m + 3

ids(S) == {mission_id(m) : m \in S}

\* SC2MOGenMission.beat_item(): the name of the item that beating m gives
beat_item(m) == [beat |-> m]

\* CollectionState.has(item, player)
has(st, item, player) == item \in st[player]

\* CollectionState.has_all(items, player); items is any iterable, given
\* here as the set of its members
has_all(st, items, player) == \A item \in items : has(st, item, player)

\* a visual requirement: a label (str) or a mission object
StrReq(s) == [str |-> s]
MissionReq(m) == [mission |-> m]
IntReq(i) == [int |-> i]
IsStr(req) == DOMAIN req = {"str"}
IsInt(req) == DOMAIN req = {"int"}

-----------------------------------------------------------------------------
(* The live hierarchy: constructors.                                       *)

BeatMissionsEntryRule(missions_to_beat, visual_reqs) ==
    [kind |-> "BeatMissionsEntryRule",
     missions_to_beat |-> missions_to_beat,
     visual_reqs |-> visual_reqs]

\* the constructor without the -1 sentinel
CountMissionsEntryRule_NoSentinel(missions_to_count, target_amount, visual_reqs) ==
    [kind |-> "CountMissionsEntryRule",
     missions_to_count |-> missions_to_count,
     target_amount |->
        IF target_amount > Cardinality(missions_to_count)
        THEN Cardinality(missions_to_count)
        ELSE target_amount,
     visual_reqs |-> visual_reqs]

CountMissionsEntryRule(missions_to_count, target_amount, visual_reqs) ==
    [kind |-> "CountMissionsEntryRule",
     missions_to_count |-> missions_to_count,
     target_amount |->
        IF target_amount = -1 \/ target_amount > Cardinality(missions_to_count)
        THEN Cardinality(missions_to_count)
        ELSE target_amount,
     visual_reqs |-> visual_reqs]

\* the constructor without the clamp of a target above the number of rules
SubRuleEntryRule_NoClamp(rules_to_check, target_amount) ==
    [kind |-> "SubRuleEntryRule",
     rules_to_check |-> rules_to_check,
     target_amount |->
        IF target_amount = -1
        THEN Len(rules_to_check)
        ELSE target_amount]

SubRuleEntryRule(rules_to_check, target_amount) ==
    [kind |-> "SubRuleEntryRule",
     rules_to_check |-> rules_to_check,
     target_amount |->
        IF target_amount = -1 \/ target_amount > Len(rules_to_check)
        THEN Len(rules_to_check)
        ELSE target_amount]

IsBeat(r) == r.kind = "BeatMissionsEntryRule"
IsCount(r) == r.kind = "CountMissionsEntryRule"
IsSub(r) == r.kind = "SubRuleEntryRule"

-----------------------------------------------------------------------------
(* The rule data: the dataclasses.                                         *)

BeatMissionsRuleData(mission_ids, visual_reqs) ==
    [kind |-> "BeatMissionsRuleData",
     mission_ids |-> mission_ids,
     visual_reqs |-> visual_reqs]

CountMissionsRuleData(mission_ids, amount, visual_reqs) ==
    [kind |-> "CountMissionsRuleData",
     mission_ids |-> mission_ids,
     amount |-> amount,
     visual_reqs |-> visual_reqs]

SubRuleRuleData(sub_rules, amount) ==
    [kind |-> "SubRuleRuleData",
     sub_rules |-> sub_rules,
     amount |-> amount]

IsBeatData(d) == d.kind = "BeatMissionsRuleData"
IsCountData(d) == d.kind = "CountMissionsRuleData"
IsSubData(d) == d.kind = "SubRuleRuleData"

\* A mission_ids field holds a Python set (after to_slot_data) or a Python
\* list (after parse_from_dict, which stores the payload's value as it is).
PySet(S) == [set |-> S]
PyList(s) == [list |-> s]
IsPySet(c) == DOMAIN c = {"set"}
Elems(c) == IF IsPySet(c) THEN c.set ELSE Range(c.list)
PyLen(c) == IF IsPySet(c) THEN Cardinality(c.set) ELSE Len(c.list)

-----------------------------------------------------------------------------
(* The live hierarchy: evaluation, compilation, conversion.                *)

\* EntryRule.is_fulfilled(beaten_missions), by variant
RECURSIVE is_fulfilled(_, _)

\* is_fulfilled with a count that must be met exactly
is_fulfilled_Exact(r, beaten_missions) ==
    IF IsBeat(r) THEN
        r.missions_to_beat \subseteq beaten_missions
    ELSE IF IsCount(r) THEN
        r.target_amount = Cardinality(beaten_missions \cap r.missions_to_count)
    ELSE
        r.target_amount <=
            SumBool([i \in 1..Len(r.rules_to_check) |->
                        is_fulfilled(r.rules_to_check[i], beaten_missions)])

is_fulfilled(r, beaten_missions) ==
    IF IsBeat(r) THEN
        r.missions_to_beat \subseteq beaten_missions
    ELSE IF IsCount(r) THEN
        r.target_amount <= Cardinality(beaten_missions \cap r.missions_to_count)
    ELSE
        r.target_amount <=
            SumBool([i \in 1..Len(r.rules_to_check) |->
                        is_fulfilled(r.rules_to_check[i], beaten_missions)])

\* EntryRule.is_always_fulfilled()
is_always_fulfilled(r) == is_fulfilled(r, {})

\* EntryRule.to_lambda(player): the closure.  A lambda of a leaf rule
\* captures self and player; the lambda of a SubRule captures self and the
\* list of its children's lambdas, compiled once.
RECURSIVE to_lambda(_, _)
to_lambda(r, player) ==
    IF IsSub(r) THEN
        [kind |-> "lambda",
         self |-> r,
         sub_lambdas |-> [i \in 1..Len(r.rules_to_check) |->
                            to_lambda(r.rules_to_check[i], player)]]
    ELSE
        [kind |-> "lambda", self |-> r, player |-> player]

\* calling the closure on a CollectionState
RECURSIVE call_lambda(_, _)

\* the closure of a SubRule with a count that must be exceeded
call_lambda_Strict(f, st) ==
    IF IsBeat(f.self) THEN
        has_all(st, {beat_item(m) : m \in f.self.missions_to_beat}, f.player)
    ELSE IF IsCount(f.self) THEN
        f.self.target_amount <=
            Cardinality({m \in f.self.missions_to_count :
                            has(st, beat_item(m), f.player)})
    ELSE
        f.self.target_amount <
            SumBool([i \in 1..Len(f.sub_lambdas) |->
                        call_lambda(f.sub_lambdas[i], st)])

call_lambda(f, st) ==
    IF IsBeat(f.self) THEN
        has_all(st, {beat_item(m) : m \in f.self.missions_to_beat}, f.player)
    ELSE IF IsCount(f.self) THEN
        f.self.target_amount <=
            Cardinality({m \in f.self.missions_to_count :
                            has(st, beat_item(m), f.player)})
    ELSE
        f.self.target_amount <=
            SumBool([i \in 1..Len(f.sub_lambdas) |->
                        call_lambda(f.sub_lambdas[i], st)])

\* req if type(req) == str else req.mission.id
resolved_reqs(visual_reqs) ==
    [i \in 1..Len(visual_reqs) |->
        IF IsStr(visual_reqs[i]) THEN visual_reqs[i]
        ELSE IntReq(mission_id(visual_reqs[i].mission))]

\* EntryRule.to_slot_data(), by variant
RECURSIVE to_slot_data(_)

\* to_slot_data that requires all sub rules instead of target_amount
to_slot_data_All(r) ==
    IF IsBeat(r) THEN
        BeatMissionsRuleData(PySet(ids(r.missions_to_beat)),
                             resolved_reqs(r.visual_reqs))
    ELSE IF IsCount(r) THEN
        CountMissionsRuleData(PySet(ids(r.missions_to_count)),
                              r.target_amount,
                              resolved_reqs(r.visual_reqs))
    ELSE
        SubRuleRuleData([i \in 1..Len(r.rules_to_check) |->
                            to_slot_data(r.rules_to_check[i])],
                        Len(r.rules_to_check))

to_slot_data(r) ==
    IF IsBeat(r) THEN
        BeatMissionsRuleData(PySet(ids(r.missions_to_beat)),
                             resolved_reqs(r.visual_reqs))
    ELSE IF IsCount(r) THEN
        CountMissionsRuleData(PySet(ids(r.missions_to_count)),
                              r.target_amount,
                              resolved_reqs(r.visual_reqs))
    ELSE
        SubRuleRuleData([i \in 1..Len(r.rules_to_check) |->
                            to_slot_data(r.rules_to_check[i])],
                        r.target_amount)

-----------------------------------------------------------------------------
(* The rule data: evaluation.                                              *)

\* RuleData.is_fulfilled(beaten_missions), by variant
RECURSIVE data_is_fulfilled(_, _)
data_is_fulfilled(d, beaten_missions) ==
    IF IsBeatData(d) THEN
        Elems(d.mission_ids) \subseteq beaten_missions
    ELSE IF IsCountData(d) THEN
        d.amount <= Cardinality(beaten_missions \cap Elems(d.mission_ids))
    ELSE
        d.amount <=
            SumBool([i \in 1..Len(d.sub_rules) |->
                        data_is_fulfilled(d.sub_rules[i], beaten_missions)])

\* empty() with an amount of one
empty_One == SubRuleRuleData(<<>>, 1)

\* SubRuleRuleData.empty()
empty == SubRuleRuleData(<<>>, 0)

-----------------------------------------------------------------------------
(* The rule data: tooltips.                                                *)

\* " ".join("" for _ in range(indents)): one space less than indents
RECURSIVE Indent(_)
Indent(indents) == IF indents <= 1 THEN "" ELSE " " \o Indent(indents - 1)

\* sep.join(strs)
RECURSIVE Join(_, _)
Join(sep, strs) ==
    IF strs = <<>> THEN ""
    ELSE IF Len(strs) = 1 THEN strs[1]
    ELSE strs[1] \o sep \o Join(sep, Tail(strs))

\* missions[req].mission_name if type(req) == int else req
ReqStr(req, missions) == IF IsInt(req) THEN missions[req.int].mission_name ELSE req.str

\* BeatMissionsRuleData.tooltip(indents, missions)
BeatTooltip(d, indents, missions) ==
    LET indent == Indent(indents)
        reqs == [i \in 1..Len(d.visual_reqs) |-> ReqStr(d.visual_reqs[i], missions)]
    IN  IF Len(d.visual_reqs) = 1
        THEN "Beat " \o ReqStr(d.visual_reqs[1], missions)
        ELSE ("Beat all of these:\n" \o indent \o "- ")
                \o Join("\n" \o indent \o "- ", reqs)

\* CountMissionsRuleData.tooltip(indents, missions)
CountTooltip(d, indents, missions) ==
    LET indent == Indent(indents)
        amount == IF d.amount = PyLen(d.mission_ids) THEN "all" ELSE ToString(d.amount)
        reqs == [i \in 1..Len(d.visual_reqs) |-> ReqStr(d.visual_reqs[i], missions)]
    IN  IF Len(d.visual_reqs) = 1 THEN
            IF d.amount = 1
            THEN "Beat " \o reqs[1]
            ELSE "Beat " \o amount \o " missions from " \o reqs[1]
        ELSE
            (IF d.amount = 1
             THEN "Beat " \o amount \o " mission from:\n" \o indent \o "- "
             ELSE "Beat " \o amount \o " missions from:\n" \o indent \o "- ")
                \o Join("\n" \o indent \o "- ", reqs)

\* RuleData.tooltip(indents, missions), by variant
RECURSIVE tooltip(_, _, _)

\* tooltip that renders the sub rules at the indent of their parent
tooltip_Flat(d, indents, missions) ==
    IF IsBeatData(d) THEN BeatTooltip(d, indents, missions)
    ELSE IF IsCountData(d) THEN CountTooltip(d, indents, missions)
    ELSE
        LET indent == Indent(indents)
            amount == IF d.amount = Len(d.sub_rules) THEN "all" ELSE ToString(d.amount)
        IN  IF d.amount = Len(d.sub_rules) /\ d.amount = 1
            THEN tooltip(d.sub_rules[1], indents, missions)
            ELSE ("Fulfill " \o amount \o " of these conditions:\n" \o indent \o "- ")
                    \o Join("\n" \o indent \o "- ",
                            [i \in 1..Len(d.sub_rules) |->
                                tooltip(d.sub_rules[i], indents, missions)])

tooltip(d, indents, missions) ==
    IF IsBeatData(d) THEN BeatTooltip(d, indents, missions)
    ELSE IF IsCountData(d) THEN CountTooltip(d, indents, missions)
    ELSE
        LET indent == Indent(indents)
            amount == IF d.amount = Len(d.sub_rules) THEN "all" ELSE ToString(d.amount)
        IN  IF d.amount = Len(d.sub_rules) /\ d.amount = 1
            THEN tooltip(d.sub_rules[1], indents, missions)
            ELSE ("Fulfill " \o amount \o " of these conditions:\n" \o indent \o "- ")
                    \o Join("\n" \o indent \o "- ",
                            [i \in 1..Len(d.sub_rules) |->
                                tooltip(d.sub_rules[i], indents + 2, missions)])

-----------------------------------------------------------------------------
(* Mission order generation: rules are constructed, evaluated, converted.  *)

AllIds == ids(Missions)

\* the missions of a set as visual requirements, in ascending order
MissionReqs(missions) ==
    [i \in 1..Cardinality(missions) |-> MissionReq(Ascending(missions)[i])]

\* the visual requirements a caller hands over with a set of missions: a
\* label followed by the missions themselves
VisualReqChoices(missions) == {<<StrReq("Group")>> \o MissionReqs(missions)}

RECURSIVE NumLeaves(_)
NumLeaves(r) ==
    IF IsSub(r)
    THEN LET n == Len(r.rules_to_check)
             RECURSIVE Sum(_)
             Sum(i) == IF i = 0 THEN 0 ELSE NumLeaves(r.rules_to_check[i]) + Sum(i - 1)
         IN  Sum(n)
    ELSE 1

RECURSIVE NumSubs(_)
NumSubs(r) ==
    IF IsSub(r)
    THEN LET RECURSIVE Sum(_)
             Sum(i) == IF i = 0 THEN 0 ELSE NumSubs(r.rules_to_check[i]) + Sum(i - 1)
         IN  1 + Sum(Len(r.rules_to_check))
    ELSE 0

\* every mission referenced anywhere in the tree
RECURSIVE MissionsOf(_)
MissionsOf(r) ==
    IF IsBeat(r) THEN r.missions_to_beat
    ELSE IF IsCount(r) THEN r.missions_to_count
    ELSE UNION {MissionsOf(r.rules_to_check[i]) : i \in 1..Len(r.rules_to_check)}

LeavesBuilt == NumLeaves(SubRuleEntryRule(rules, 0))
SubsBuilt == NumSubs(SubRuleEntryRule(rules, 0)) - 1

\* the rule the operations act on: the one constructed last
Rule == rules[Len(rules)]

NoResults ==
    /\ slot' = None
    /\ beaten' = {}
    /\ verdict' = NoVerdict

NewBeat(missions, reqs) ==
    /\ LeavesBuilt < MaxLeaves
    /\ rules' = Append(rules, BeatMissionsEntryRule(missions, reqs))
    /\ ctor' = None
    /\ NoResults
    /\ UNCHANGED <<state, lam, answer, payload, parsed, tip>>

NewCount(missions, target, reqs) ==
    /\ LeavesBuilt < MaxLeaves
    /\ rules' = Append(rules, CountMissionsEntryRule(missions, target, reqs))
    /\ ctor' = [size |-> Cardinality(missions), target |-> target]
    /\ NoResults
    /\ UNCHANGED <<state, lam, answer, payload, parsed, tip>>

\* a SubRule over the rules constructed so far, in their order
NewSub(target) ==
    LET new == SubRuleEntryRule(rules, target)
    IN  /\ SubsBuilt < MaxSubs
        /\ rules' = <<new>>
        /\ ctor' = [size |-> Len(rules), target |-> target]
        /\ NoResults
        /\ UNCHANGED <<state, lam, answer, payload, parsed, tip>>

IsFulfilled(S) ==
    /\ rules # <<>>
    /\ beaten' = S
    /\ verdict' = [of |-> "is_fulfilled", val |-> is_fulfilled(Rule, S)]
    /\ UNCHANGED <<rules, ctor, slot, state, lam, answer, payload, parsed, tip>>

IsAlwaysFulfilled ==
    /\ rules # <<>>
    /\ beaten' = {}
    /\ verdict' = [of |-> "is_always_fulfilled", val |-> is_always_fulfilled(Rule)]
    /\ UNCHANGED <<rules, ctor, slot, state, lam, answer, payload, parsed, tip>>

ToSlotData ==
    /\ rules # <<>>
    /\ slot' = to_slot_data(Rule)
    /\ UNCHANGED <<rules, ctor, beaten, verdict, state, lam, answer, payload, parsed, tip>>

DataIsFulfilled(I) ==
    /\ slot # None
    /\ beaten' = I
    /\ verdict' = [of |-> "data_is_fulfilled", val |-> data_is_fulfilled(slot, I)]
    /\ UNCHANGED <<rules, ctor, slot, state, lam, answer, payload, parsed, tip>>

NoState == [p \in Players |-> {}]

Init ==
    /\ rules = <<>>
    /\ ctor = None
    /\ slot = None
    /\ beaten = {}
    /\ verdict = NoVerdict
    /\ state = NoState
    /\ lam = None
    /\ answer = NoAnswer
    /\ payload = None
    /\ parsed = None
    /\ tip = None

Next ==
    \/ \E missions \in SUBSET Missions : \E reqs \in VisualReqChoices(missions) :
          NewBeat(missions, reqs)
    \/ \E missions \in SUBSET Missions : \E target \in Targets :
          \E reqs \in VisualReqChoices(missions) : NewCount(missions, target, reqs)
    \/ \E target \in Targets : NewSub(target)
    \/ \E S \in SUBSET Missions : IsFulfilled(S)
    \/ IsAlwaysFulfilled
    \/ ToSlotData
    \/ \E I \in SUBSET AllIds : DataIsFulfilled(I)

Spec == Init /\ [][Next]_vars

-----------------------------------------------------------------------------
(* Item placement: a rule is compiled to a predicate over the collection   *)
(* state, which is called again and again while the state changes.         *)

SeqsUpTo(S, n) == UNION {[1..k -> S] : k \in 0..n}

\* the rules the constructors give for the missions and targets of the model
ReqsFor(S) == IF S = {} THEN <<StrReq("Group")>> ELSE MissionReqs(S)

LiveLeaves ==
    {BeatMissionsEntryRule(S, ReqsFor(S)) : S \in SUBSET Missions}
    \cup
    {CountMissionsEntryRule(S, t, ReqsFor(S)) : S \in SUBSET Missions, t \in Targets}

LiveSubs == {SubRuleEntryRule(c, t) : c \in SeqsUpTo(LiveLeaves, MaxLeaves), t \in Targets}

\* a SubRule of a BeatMissions and a CountMissions rule, in a SubRule
LiveNested ==
    {SubRuleEntryRule(<<SubRuleEntryRule(<<a, b>>, t), c>>, u) :
        a \in {l \in LiveLeaves : IsBeat(l)},
        b \in {l \in LiveLeaves : IsCount(l) /\ l.missions_to_count = Missions},
        c \in {l \in LiveLeaves : IsBeat(l) /\ l.missions_to_beat # {}},
        t \in Targets, u \in Targets}

LiveRules == LiveLeaves \cup LiveSubs \cup LiveNested

BeatItems == {beat_item(m) : m \in Missions}

\* the missions whose beat item the player holds
CompletedBy(st, player) == {m \in Missions : has(st, beat_item(m), player)}

Stale(a) == IF a.called THEN [a EXCEPT !.stale = TRUE] ELSE a

ToLambda(player) ==
    /\ lam' = [closure |-> to_lambda(Rule, player), player |-> player]
    /\ answer' = NoAnswer
    /\ UNCHANGED <<rules, ctor, slot, beaten, verdict, state, payload, parsed, tip>>

\* CollectionState.collect: the player gets an item
Collect(player, item) ==
    /\ item \notin state[player]
    /\ state' = [state EXCEPT ![player] = @ \cup {item}]
    /\ answer' = Stale(answer)
    /\ UNCHANGED <<rules, ctor, slot, beaten, verdict, lam, payload, parsed, tip>>

\* CollectionState.remove: the player loses an item
Remove(player, item) ==
    /\ item \in state[player]
    /\ state' = [state EXCEPT ![player] = @ \ {item}]
    /\ answer' = Stale(answer)
    /\ UNCHANGED <<rules, ctor, slot, beaten, verdict, lam, payload, parsed, tip>>

CallLambda ==
    /\ lam # None
    /\ answer' = [called |-> TRUE,
                  val |-> call_lambda(lam.closure, state),
                  stale |-> FALSE,
                  again |-> answer.called /\ answer.stale]
    /\ UNCHANGED <<rules, ctor, slot, beaten, verdict, state, lam, payload, parsed, tip>>

InitLambda ==
    /\ rules \in {<<r>> : r \in LiveRules}
    /\ ctor = None
    /\ slot = None
    /\ beaten = {}
    /\ verdict = NoVerdict
    /\ state = NoState
    /\ lam = None
    /\ answer = NoAnswer
    /\ payload = None
    /\ parsed = None
    /\ tip = None

NextLambda ==
    \/ \E player \in Players : ToLambda(player)
    \/ \E player \in Players : \E item \in BeatItems : Collect(player, item)
    \/ \E player \in Players : \E item \in BeatItems : Remove(player, item)
    \/ CallLambda

SpecLambda == InitLambda /\ [][NextLambda]_vars

-----------------------------------------------------------------------------
(* The client: rule data arrives as a generic payload and is parsed.       *)

Error(e) == [kind |-> "Error", error |-> e]
IsError(x) == x.kind = "Error"

BeatFields == {"mission_ids", "visual_reqs"}
CountFields == {"mission_ids", "amount", "visual_reqs"}

\* the lists with the members of a set, each once
Orders(S) == {s \in [1..Cardinality(S) -> S] : Range(s) = S}

\* The rule data as a generic payload: a mapping of the field names to the
\* values, a set written as a list in some order, a list of rule data as
\* the list of their payloads.  The class of a node is not written.
RECURSIVE Payloads(_)
Payloads(d) ==
    IF IsBeatData(d) THEN
        {[mission_ids |-> PyList(s), visual_reqs |-> d.visual_reqs] :
            s \in Orders(Elems(d.mission_ids))}
    ELSE IF IsCountData(d) THEN
        {[mission_ids |-> PyList(s), amount |-> d.amount, visual_reqs |-> d.visual_reqs] :
            s \in Orders(Elems(d.mission_ids))}
    ELSE
        LET RECURSIVE Lists(_)
            Lists(ds) ==
                IF ds = <<>> THEN {<<>>}
                ELSE {<<h>> \o t : h \in Payloads(Head(ds)), t \in Lists(Tail(ds))}
        IN  {[sub_rules |-> c, amount |-> d.amount] : c \in Lists(d.sub_rules)}

\* the index of the first entry of a list that is an error, or 0
FirstError(xs) ==
    IF \E i \in 1..Len(xs) : IsError(xs[i])
    THEN CHOOSE i \in 1..Len(xs) : IsError(xs[i]) /\ \A j \in 1..(i - 1) : ~ IsError(xs[j])
    ELSE 0

\* CountMissionsRuleData(**rule_data): the dataclass takes exactly its fields
ParseCount(rule_data) ==
    IF DOMAIN rule_data = CountFields
    THEN CountMissionsRuleData(rule_data.mission_ids, rule_data.amount, rule_data.visual_reqs)
    ELSE Error("TypeError")

\* BeatMissionsRuleData(**rule_data): the dataclass takes exactly its fields
ParseBeat(rule_data) ==
    IF DOMAIN rule_data = BeatFields
    THEN BeatMissionsRuleData(rule_data.mission_ids, rule_data.visual_reqs)
    ELSE Error("TypeError")

\* SubRuleRuleData.parse_from_dict(data): the rule data, or the error raised
RECURSIVE parse_from_dict(_)

\* parse_from_dict that puts an amount of 0 where the payload has none
parse_from_dict_Default(data) ==
    IF "sub_rules" \notin DOMAIN data THEN Error("KeyError")
    ELSE
        LET amount == IF "amount" \in DOMAIN data THEN data.amount ELSE 0
            sub_rules ==
                [i \in 1..Len(data.sub_rules) |->
                    LET rule_data == data.sub_rules[i]
                    IN  IF "sub_rules" \in DOMAIN rule_data THEN parse_from_dict(rule_data)
                        ELSE IF "amount" \in DOMAIN rule_data THEN ParseCount(rule_data)
                        ELSE ParseBeat(rule_data)]
        IN  IF FirstError(sub_rules) # 0 THEN sub_rules[FirstError(sub_rules)]
            ELSE SubRuleRuleData(sub_rules, amount)

\* parse_from_dict that looks for amount before it looks for sub_rules
parse_from_dict_AmountFirst(data) ==
    IF "amount" \notin DOMAIN data THEN Error("KeyError")
    ELSE IF "sub_rules" \notin DOMAIN data THEN Error("KeyError")
    ELSE
        LET sub_rules ==
                [i \in 1..Len(data.sub_rules) |->
                    LET rule_data == data.sub_rules[i]
                    IN  IF "amount" \in DOMAIN rule_data THEN ParseCount(rule_data)
                        ELSE IF "sub_rules" \in DOMAIN rule_data THEN parse_from_dict(rule_data)
                        ELSE ParseBeat(rule_data)]
        IN  IF FirstError(sub_rules) # 0 THEN sub_rules[FirstError(sub_rules)]
            ELSE SubRuleRuleData(sub_rules, data.amount)

\* parse_from_dict that puts each rule in front of the ones parsed before
parse_from_dict_Prepend(data) ==
    IF "amount" \notin DOMAIN data THEN Error("KeyError")
    ELSE IF "sub_rules" \notin DOMAIN data THEN Error("KeyError")
    ELSE
        LET n == Len(data.sub_rules)
            sub_rules ==
                [i \in 1..n |->
                    LET rule_data == data.sub_rules[n + 1 - i]
                    IN  IF "sub_rules" \in DOMAIN rule_data THEN parse_from_dict(rule_data)
                        ELSE IF "amount" \in DOMAIN rule_data THEN ParseCount(rule_data)
                        ELSE ParseBeat(rule_data)]
        IN  IF FirstError(sub_rules) # 0 THEN sub_rules[FirstError(sub_rules)]
            ELSE SubRuleRuleData(sub_rules, data.amount)

parse_from_dict(data) ==
    IF "amount" \notin DOMAIN data THEN Error("KeyError")
    ELSE IF "sub_rules" \notin DOMAIN data THEN Error("KeyError")
    ELSE
        LET sub_rules ==
                [i \in 1..Len(data.sub_rules) |->
                    LET rule_data == data.sub_rules[i]
                    IN  IF "sub_rules" \in DOMAIN rule_data THEN parse_from_dict(rule_data)
                        ELSE IF "amount" \in DOMAIN rule_data THEN ParseCount(rule_data)
                        ELSE ParseBeat(rule_data)]
        IN  IF FirstError(sub_rules) # 0 THEN sub_rules[FirstError(sub_rules)]
            ELSE SubRuleRuleData(sub_rules, data.amount)

\* the places of the nodes of a payload: the indices that lead to each
RECURSIVE Paths(_)
Paths(node) ==
    {<<>>} \cup
    (IF "sub_rules" \in DOMAIN node
     THEN UNION {{<<i>> \o q : q \in Paths(node.sub_rules[i])} :
                    i \in 1..Len(node.sub_rules)}
     ELSE {})

RECURSIVE NodeAt(_, _)
NodeAt(node, path) ==
    IF path = <<>> THEN node
    ELSE NodeAt(node.sub_rules[Head(path)], Tail(path))

WithField(node, f, v) == [g \in DOMAIN node \cup {f} |-> IF g = f THEN v ELSE node[g]]
WithoutField(node, f) == [g \in DOMAIN node \ {f} |-> node[g]]

RECURSIVE ReplaceAt(_, _, _)
ReplaceAt(node, path, new) ==
    IF path = <<>> THEN new
    ELSE WithField(node, "sub_rules",
            [node.sub_rules EXCEPT ![Head(path)] = ReplaceAt(@, Tail(path), new)])

\* the fields a payload in transit may gain, each with a value of its type
ExtraFields == {"sub_rules", "amount", "mission_ids", "visual_reqs", "name"}
ExtraValue(f) ==
    CASE f = "sub_rules" -> <<>>
      [] f = "amount" -> 1
      [] f = "mission_ids" -> PyList(<<>>)
      [] f = "visual_reqs" -> <<StrReq("Group")>>
      [] f = "name" -> StrReq("Group")

\* the payload of the rule data is written
Serialize ==
    /\ slot # None
    /\ payload = None
    /\ \E data \in Payloads(slot) : payload' = [data |-> data, tampered |-> 0]
    /\ parsed' = None
    /\ UNCHANGED <<rules, ctor, slot, beaten, verdict, state, lam, answer, tip>>

\* a node of the payload loses a field on the way
DropField(path, f) ==
    /\ payload.tampered < MaxTamper
    /\ f \in DOMAIN NodeAt(payload.data, path)
    /\ payload' = [data |-> ReplaceAt(payload.data, path,
                                WithoutField(NodeAt(payload.data, path), f)),
                   tampered |-> payload.tampered + 1]
    /\ parsed' = None
    /\ UNCHANGED <<rules, ctor, slot, beaten, verdict, state, lam, answer, tip>>

\* a node of the payload gains a field on the way
AddField(path, f) ==
    /\ payload.tampered < MaxTamper
    /\ f \notin DOMAIN NodeAt(payload.data, path)
    /\ payload' = [data |-> ReplaceAt(payload.data, path,
                                WithField(NodeAt(payload.data, path), f, ExtraValue(f))),
                   tampered |-> payload.tampered + 1]
    /\ parsed' = None
    /\ UNCHANGED <<rules, ctor, slot, beaten, verdict, state, lam, answer, tip>>

Parse ==
    /\ payload # None
    /\ parsed' = parse_from_dict(payload.data)
    /\ UNCHANGED <<rules, ctor, slot, beaten, verdict, state, lam, answer, payload, tip>>

InitClient ==
    /\ rules \in {<<r>> : r \in LiveRules}
    /\ ctor = None
    /\ slot = None
    /\ beaten = {}
    /\ verdict = NoVerdict
    /\ state = NoState
    /\ lam = None
    /\ answer = NoAnswer
    /\ payload = None
    /\ parsed = None
    /\ tip = None

NextClient ==
    \/ slot = None /\ ToSlotData
    \/ Serialize
    \/ payload # None /\ \E path \in Paths(payload.data) : \E f \in ExtraFields :
            DropField(path, f)
    \/ payload # None /\ \E path \in Paths(payload.data) : \E f \in ExtraFields :
            AddField(path, f)
    \/ Parse

SpecClient == InitClient /\ [][NextClient]_vars

-----------------------------------------------------------------------------
(* The client: rule data is evaluated and shown as a tooltip.              *)

\* the mission table of the client: the missions by id, each with its name
MissionTable == [i \in AllIds |-> [mission_name |-> "Mission " \o ToString(i)]]

\* rule data as the dataclasses allow it, with any amount
DataLeaves == {to_slot_data(l) : l \in LiveLeaves}
DataSubs == {SubRuleRuleData(c, a) : c \in SeqsUpTo(DataLeaves, MaxLeaves), a \in Targets}
DataNested == {to_slot_data(r) : r \in LiveNested}
RuleDatas == DataLeaves \cup DataSubs \cup DataNested

Empty ==
    /\ slot' = empty
    /\ ctor' = [named |-> "empty"]
    /\ beaten' = {}
    /\ verdict' = NoVerdict
    /\ tip' = None
    /\ UNCHANGED <<rules, state, lam, answer, payload, parsed>>

Tooltip(indents) ==
    /\ tip' = [indents |-> indents, text |-> tooltip(slot, indents, MissionTable)]
    /\ UNCHANGED <<rules, ctor, slot, beaten, verdict, state, lam, answer, payload, parsed>>

InitData ==
    /\ rules = <<>>
    /\ ctor = None
    /\ slot \in RuleDatas
    /\ beaten = {}
    /\ verdict = NoVerdict
    /\ state = NoState
    /\ lam = None
    /\ answer = NoAnswer
    /\ payload = None
    /\ parsed = None
    /\ tip = None

NextData ==
    \/ Empty
    \/ \E indents \in 0..MaxIndent : Tooltip(indents)
    \/ \E I \in SUBSET AllIds : DataIsFulfilled(I)

SpecData == InitData /\ [][NextData]_vars

-----------------------------------------------------------------------------
(* Properties of the live hierarchy, under Spec.                           *)

\* the target amount the constructor stores for a collection of the given
\* size when handed the given target
Clamped(size, target) ==
    IF target = -1 \/ target > size THEN size ELSE target

HasTarget(r) == IsCount(r) \/ IsSub(r)

\* C1 (conversion fidelity): once to_slot_data has converted the rule, the
\* rule and its rule data give the same answer for every set of beaten
\* missions, the rule on the mission objects and the data on their ids.
C1_ConversionFidelity ==
    slot # None =>
        \A S \in SUBSET Missions :
            is_fulfilled(Rule, S) = data_is_fulfilled(slot, ids(S))

\* a nested rule was converted, and some set fulfils it and some set does not
C1_Witness ==
    /\ slot # None
    /\ IsSub(Rule)
    /\ \E i \in 1..Len(Rule.rules_to_check) : IsSub(Rule.rules_to_check[i])
    /\ \E S \in SUBSET Missions : data_is_fulfilled(slot, ids(S))
    /\ \E S \in SUBSET Missions : ~ data_is_fulfilled(slot, ids(S))

C4_Monotonic ==
    /\ (verdict.of = "is_fulfilled" /\ verdict.val) =>
            \A T \in SUBSET Missions :
                beaten \subseteq T => is_fulfilled(Rule, T)
    /\ (verdict.of = "data_is_fulfilled" /\ verdict.val) =>
            \A T \in SUBSET AllIds :
                beaten \subseteq T => data_is_fulfilled(slot, T)

\* a nested rule that is not always fulfilled was found fulfilled by a set
\* that is not the whole of the missions
C4_Witness ==
    /\ verdict.of \in {"is_fulfilled", "data_is_fulfilled"}
    /\ verdict.val
    /\ IsSub(Rule)
    /\ ~ is_always_fulfilled(Rule)
    /\ beaten # Missions
    /\ beaten # AllIds

EmptyCollection(r) ==
    \/ IsCount(r) /\ r.missions_to_count = {}
    \/ IsSub(r) /\ r.rules_to_check = <<>>

\* C10 (satisfiable after clamping): every constructed rule is fulfilled
\* by the set of all the missions its tree refers to, and a
\* CountMissions rule over no missions or a SubRule over no rules is
\* always fulfilled.
C10_Satisfiable ==
    rules # <<>> =>
        /\ is_fulfilled(Rule, MissionsOf(Rule))
        /\ (verdict.of = "is_fulfilled" /\ beaten = MissionsOf(Rule)) => verdict.val
        /\ (verdict.of = "is_always_fulfilled" /\ EmptyCollection(Rule)) => verdict.val

\* a rule over an empty collection, constructed with a positive target,
\* was asked whether it is always fulfilled
C10_Witness ==
    /\ rules # <<>>
    /\ EmptyCollection(Rule)
    /\ ctor # None
    /\ ctor.target > 0
    /\ verdict.of = "is_always_fulfilled"

\* a nested rule with a target above the number of its rules was evaluated
\* on all the missions it refers to
C10_WitnessNested ==
    /\ rules # <<>>
    /\ IsSub(Rule)
    /\ ctor # None
    /\ ctor.target > ctor.size
    /\ ctor.size > 1
    /\ verdict.of = "is_fulfilled"
    /\ beaten = MissionsOf(Rule)
    /\ beaten # {}

-----------------------------------------------------------------------------
(* Properties of the compiled predicate, under SpecLambda.                 *)

\* C3 (predicate and set agree): what the last call of the predicate
\* returned, as long as the state has not changed since, is what
\* is_fulfilled returns for the missions whose beat item the predicate's
\* player holds in the state; also when the call came after a change of
\* the state that followed an earlier call.
C3_PredicateAgrees ==
    (answer.called /\ ~ answer.stale) =>
        answer.val = is_fulfilled(Rule, CompletedBy(state, lam.player))

\* the predicate of a nested rule that is not always fulfilled was called,
\* the state changed, the predicate was called again and returned true,
\* while another player holds other items
C3_Witness ==
    /\ answer.called
    /\ answer.again
    /\ ~ answer.stale
    /\ answer.val
    /\ IsSub(Rule)
    /\ \E i \in 1..Len(Rule.rules_to_check) : IsSub(Rule.rules_to_check[i])
    /\ ~ is_always_fulfilled(Rule)
    /\ \E p \in Players : state[p] # state[lam.player]

-----------------------------------------------------------------------------
(* Properties of parse_from_dict, under SpecClient.                        *)

\* the same variant at every node, the same amounts, the same mission ids
\* and visual requirements at the leaves, the children in the same order
RECURSIVE SameTree(_, _)
SameTree(a, d) ==
    /\ a.kind = d.kind
    /\ IF IsSubData(d) THEN
            /\ a.amount = d.amount
            /\ Len(a.sub_rules) = Len(d.sub_rules)
            /\ \A i \in 1..Len(d.sub_rules) : SameTree(a.sub_rules[i], d.sub_rules[i])
       ELSE IF IsCountData(d) THEN
            /\ a.amount = d.amount
            /\ Elems(a.mission_ids) = Elems(d.mission_ids)
            /\ a.visual_reqs = d.visual_reqs
       ELSE
            /\ Elems(a.mission_ids) = Elems(d.mission_ids)
            /\ a.visual_reqs = d.visual_reqs

\* C5 (round trip): the payload of a SubRuleRuleData, parsed as it was
\* written, gives the same tree.
C5_RoundTrip ==
    (parsed # None /\ payload.tampered = 0 /\ IsSubData(slot)) =>
        /\ ~ IsError(parsed)
        /\ SameTree(parsed, slot)

\* a tree with a nested SubRuleRuleData, a count of two missions and a
\* second child went through; the parsed leaves hold the payload's lists
C5_Witness ==
    /\ parsed # None
    /\ payload.tampered = 0
    /\ IsSubData(slot)
    /\ Len(slot.sub_rules) = 2
    /\ IsSubData(slot.sub_rules[1])
    /\ Len(slot.sub_rules[1].sub_rules) = 2
    /\ IsCountData(slot.sub_rules[1].sub_rules[2])
    /\ PyLen(slot.sub_rules[1].sub_rules[2].mission_ids) = 2
    /\ SameTree(parsed, slot)
    /\ parsed # slot

\* the variant the fields of a nested payload select
DispatchKind(node) ==
    IF "sub_rules" \in DOMAIN node THEN "SubRuleRuleData"
    ELSE IF "amount" \in DOMAIN node THEN "CountMissionsRuleData"
    ELSE "BeatMissionsRuleData"

RECURSIVE FollowsDispatch(_, _)
FollowsDispatch(node, tree) ==
    /\ IsSubData(tree)
    /\ Len(tree.sub_rules) = Len(node.sub_rules)
    /\ \A i \in 1..Len(node.sub_rules) :
        /\ tree.sub_rules[i].kind = DispatchKind(node.sub_rules[i])
        /\ IsSubData(tree.sub_rules[i]) =>
                FollowsDispatch(node.sub_rules[i], tree.sub_rules[i])

\* a node whose fields are those of the variant they select
NodeComplete(node) ==
    IF "sub_rules" \in DOMAIN node THEN "amount" \in DOMAIN node
    ELSE IF "amount" \in DOMAIN node THEN DOMAIN node = CountFields
    ELSE DOMAIN node = BeatFields

Complete(data) == \A path \in Paths(data) : NodeComplete(NodeAt(data, path))

ExamplePayload ==
    [amount |-> 1,
     sub_rules |-> <<[mission_ids |-> PyList(<<5>>), visual_reqs |-> <<IntReq(5)>>]>>]

ExampleParsed ==
    SubRuleRuleData(<<BeatMissionsRuleData(PyList(<<5>>), <<IntReq(5)>>)>>, 1)

\* C6 (structural dispatch): a payload with sub_rules whose nodes all have
\* the fields of the variant they select is parsed; in what is parsed the
\* i-th child is a SubRuleRuleData when the i-th nested payload has
\* sub_rules, else a CountMissionsRuleData when it has amount, else a
\* BeatMissionsRuleData; and the payload of the example gives a
\* SubRuleRuleData of amount 1 with one BeatMissionsRuleData of mission 5.
C6_Dispatch ==
    parsed # None =>
        /\ ("sub_rules" \in DOMAIN payload.data /\ Complete(payload.data)) =>
                ~ IsError(parsed)
        /\ ~ IsError(parsed) => FollowsDispatch(payload.data, parsed)
        /\ payload.data = ExamplePayload => parsed = ExampleParsed

\* a payload was parsed in which a nested payload with sub_rules and amount
\* is followed by one that gained an amount on the way
C6_Witness ==
    /\ parsed # None
    /\ ~ IsError(parsed)
    /\ payload.tampered = 1
    /\ Len(parsed.sub_rules) = 2
    /\ IsSubData(parsed.sub_rules[1])
    /\ Len(parsed.sub_rules[1].sub_rules) = 2
    /\ IsCountData(parsed.sub_rules[2])
    /\ IsBeatData(slot.sub_rules[2])

\* the payload of the example was parsed
C6_ExampleReached ==
    /\ parsed # None
    /\ payload.data = ExamplePayload

-----------------------------------------------------------------------------
(* Properties of the rule data, under SpecData.                            *)

\* the bullets under a header: each sub rule after "- " on a line of its
\* own, rendered two indent levels deeper
Bullets(d, indents) ==
    ("\n" \o Indent(indents) \o "- ")
        \o Join("\n" \o Indent(indents) \o "- ",
                [i \in 1..Len(d.sub_rules) |->
                    tooltip(d.sub_rules[i], indents + 2, MissionTable)])

\* the tooltip of a SubRuleRuleData as C8 states it: "all" with more than
\* one sub rule only
ClaimedTooltip(d, indents) ==
    IF d.amount = Len(d.sub_rules) /\ Len(d.sub_rules) = 1
    THEN tooltip(d.sub_rules[1], indents, MissionTable)
    ELSE IF d.amount = Len(d.sub_rules) /\ Len(d.sub_rules) > 1
    THEN "Fulfill all of these conditions:" \o Bullets(d, indents)
    ELSE ("Fulfill " \o ToString(d.amount) \o " of these conditions:") \o Bullets(d, indents)

\* the same with "all" whenever the amount is the number of sub rules and
\* that number is not one
AmendedTooltip(d, indents) ==
    IF d.amount = Len(d.sub_rules) /\ Len(d.sub_rules) = 1
    THEN tooltip(d.sub_rules[1], indents, MissionTable)
    ELSE IF d.amount = Len(d.sub_rules)
    THEN "Fulfill all of these conditions:" \o Bullets(d, indents)
    ELSE ("Fulfill " \o ToString(d.amount) \o " of these conditions:") \o Bullets(d, indents)

\* C8 as stated: the tooltip of a SubRuleRuleData is its only sub rule's
\* tooltip when the amount is 1 and there is one sub rule, has the header
\* "Fulfill all of these conditions:" when the amount is the number of sub
\* rules and there are more than one, and the header with the number in
\* every other case.
C8_AsStated ==
    (tip # None /\ IsSubData(slot)) => tip.text = ClaimedTooltip(slot, tip.indents)

\* C8 (amended): the same, but the header reads "all" whenever the amount
\* is the number of sub rules and that number is not one, also when there
\* is no sub rule.
C8_Tooltip ==
    (tip # None /\ IsSubData(slot)) => tip.text = AmendedTooltip(slot, tip.indents)

\* the tooltip of a SubRuleRuleData that asks for all of its two sub rules,
\* the first a SubRuleRuleData that asks for one of two, was rendered at
\* an indent level above 0
C8_Witness ==
    /\ tip # None
    /\ tip.indents > 0
    /\ IsSubData(slot)
    /\ Len(slot.sub_rules) = 2
    /\ slot.amount = 2
    /\ IsSubData(slot.sub_rules[1])
    /\ Len(slot.sub_rules[1].sub_rules) = 2
    /\ slot.sub_rules[1].amount = 1

\* C9 (empty sentinel): what empty() returns has no sub rules and the
\* amount 0, and is_fulfilled returns true for it whatever the set of ids.
C9_EmptySentinel ==
    ctor = [named |-> "empty"] =>
        /\ IsSubData(slot)
        /\ slot.sub_rules = <<>>
        /\ slot.amount = 0
        /\ verdict.of = "data_is_fulfilled" => verdict.val

\* is_fulfilled was called on what empty() returned, with a set of ids
\* that is not empty
C9_Witness ==
    /\ ctor = [named |-> "empty"]
    /\ verdict.of = "data_is_fulfilled"
    /\ beaten # {}

====
